---- MODULE Spec2Model ----
(***************************************************************************)
(* Session / frame synchronisation of the OpenXR plugin (src/src/lib.rs).  *)
(*                                                                         *)
(* The plugin is built (OpenXrPlugin::build), finished                     *)
(* (OpenXrPlugin::finish) and then driven once per tick by the host:       *)
(* the main schedule runs xr_begin_frame in PreUpdate, the render world    *)
(* is extracted, and the Render schedule runs post_frame, render_system    *)
(* and end_frame.  Every call into the OpenXR runtime is a step of its own *)
(* and its result (Ok / Err, or the polled event) is chosen by the         *)
(* runtime, i.e. nondeterministically.  A failed `.unwrap()` is a panic:   *)
(* the process is gone and no later step runs.                             *)
(***************************************************************************)
EXTENDS Naturals, Integers, Sequences, FiniteSets, TLC

\* ---------------------------------------------------------------- bounds
MaxTicks  == 3      \* ticks the host runs
MaxEvents == 2      \* events the runtime hands to one tick's poll loop

\* ------------------------------------------------------- program constants
\* ManualTextureViewHandle(n): the handle is the decimal numeral of n
LEFT_XR_TEXTURE_HANDLE  == "1208214591"
RIGHT_XR_TEXTURE_HANDLE == "3383858418"

\* PipelinedRenderingPlugin is disabled by DefaultXrPlugins: the render
\* schedule of a tick runs inside that tick's App::update.
PipelinedRenderingOn == TRUE

PipelinedRendering == FALSE

\* What graphics::initialize_xr_graphics negotiated (opaque to lib.rs).
XrResolution == "resolution"
XrFormat     == "format"
NumImages    == 2

\* The events instance.poll_event can hand out, as xr_begin_frame's match
\* distinguishes them: four session states with an arm of their own, one
\* representative of the remaining session states (`_ => {}`), the two other
\* named events and one representative of the catch-all arm.
SessionStates == {"READY", "STOPPING", "EXITING", "LOSS_PENDING", "FOCUSED"}
Events == SessionStates \cup {"InstanceLossPending", "EventsLost", "Other"}

VARIABLES
    phase,                  \* "prebuild" | "built" | "running" | "crashed"
    initResult,             \* result of initialize_xr_graphics: "none"|"ok"|"err"
    status,                 \* XrEnableStatus of the main world ("None" = absent)
    renderStatus,           \* XrEnableStatus of the render world
    statusWrites,           \* number of insert_resource(XrEnableStatus) on the main world
    xrRenderData,           \* XrRenderData resource present
    mainSystems,            \* xr_begin_frame added to PreUpdate
    renderSystems,          \* post_frame / end_frame added to Render
    session_running,        \* XrSessionRunning (AtomicBool)
    frame_state,            \* XrFrameState: predicted display time
    views,                  \* XrViews: display time the views were located for
    image_index,            \* swapchain image last acquired
    mainTextureViews,       \* ManualTextureViews of the main world
    manual_texture_views,   \* ManualTextureViews of the render world
    tick,                   \* number of the current tick (frame)
    renderFrame,            \* frame the render schedule works on / last finished
    mainPc,                 \* position of the main schedule
    renderPc,               \* position of the render schedule
    polled,                 \* events polled in this tick
    log,                    \* runtime calls of the current tick, in order
    warns,                  \* warnings logged in the current tick
    submitted,              \* what the last swapchain.end was given
    startFrameState,        \* history: frame_state at the start of the tick
    startViews,             \* history: views at the start of the tick
    exitTick                \* history: tick of the first EXITING / LOSS_PENDING (0 = none)

vars == << phase, initResult, status, renderStatus, statusWrites, xrRenderData,
           mainSystems, renderSystems, session_running, frame_state, views,
           image_index, mainTextureViews, manual_texture_views, tick,
           renderFrame, mainPc, renderPc, polled, log, warns, submitted,
           startFrameState, startViews, exitTick >>

initVars  == << initResult, status, renderStatus, statusWrites, xrRenderData,
                mainSystems, renderSystems >>
xrVars    == << session_running, frame_state, views, image_index >>
texVars   == << mainTextureViews, manual_texture_views >>
histVars  == << startFrameState, startViews, exitTick >>

\* ---------------------------------------------------------------- helpers
NoViews == [h \in {} |-> [texture_view |-> << 0, "left" >>, size |-> XrResolution, format |-> XrFormat]]

\* ManualTextureViews::insert
Insert(m, h, v) == [x \in (DOMAIN m) \cup {h} |-> IF x = h THEN v ELSE m[x]]

\* Swapchain::get_render_views (resources module): the view of one eye of the
\* image the swapchain acquired last.
get_render_views(img, eye) == << img, eye >>

\* Swapchain::acquire_image (resources module): the runtime hands out the next
\* image of the ring.
acquire_image(img) == (img + 1) % NumImages

\* ManualTextureView { texture_view, size, format } built from
\* swapchain.get_render_views()
ManualTextureView(img, eye) ==
    [texture_view |-> get_render_views(img, eye), size |-> XrResolution,
     format |-> XrFormat]

Entry(f, c, r) == [f |-> f, c |-> c, r |-> r]

\* xr_only(): the run condition of the three systems
xr_only(s) == s = "Enabled"

\* OpenXrPlugin::ready
ready == IF status = "None" THEN TRUE ELSE status # "Waiting"

NoSubmission == [t |-> -1, v |-> -1]

\* ------------------------------------------------------------------- Init
Init ==
    /\ phase = "prebuild"
    /\ initResult = "none"
    /\ status \in {"None", "Waiting"}
    /\ renderStatus = "None"
    /\ statusWrites = 0
    /\ xrRenderData = FALSE
    /\ mainSystems = FALSE
    /\ renderSystems = FALSE
    /\ session_running = FALSE
    /\ frame_state = 0
    /\ views = 0
    /\ image_index = 0
    /\ mainTextureViews = NoViews
    /\ manual_texture_views = NoViews
    /\ tick = 0
    /\ renderFrame = 0
    /\ mainPc = "idle"
    /\ renderPc = "idle"
    /\ polled = 0
    /\ log = << >>
    /\ warns = {}
    /\ submitted = NoSubmission
    /\ startFrameState = 0
    /\ startViews = 0
    /\ exitTick = 0

\* ------------------------------------------------- OpenXrPlugin::build
\* app.insert_resource(XrEnableStatus::Enabled) in the Ok arm,
\* app.insert_resource(XrEnableStatus::Disabled) in the Err arm
BuildStatusEnabled(ok) == "Enabled"

BuildStatus(ok) == IF ok THEN "Enabled" ELSE "Disabled"

Build ==
    /\ phase = "prebuild"
    /\ \E ok \in BOOLEAN :
         /\ initResult' = IF ok THEN "ok" ELSE "err"
         /\ xrRenderData' = ok
         /\ status' = BuildStatus(ok)
    /\ statusWrites' = statusWrites + 1
    /\ phase' = "built"
    /\ UNCHANGED << renderStatus, mainSystems, renderSystems >>
    /\ UNCHANGED << xrVars, texVars, histVars, tick, renderFrame, mainPc,
                    renderPc, polled, log, warns, submitted >>

\* ------------------------------------------------- OpenXrPlugin::finish
\* `if let Some(data) = app.world.get_resource::<XrRenderData>().cloned()`
HasRenderDataAlways == TRUE

HasRenderData == xrRenderData

Finish ==
    /\ phase = "built"
    /\ ready
    /\ IF HasRenderData
       THEN /\ mainSystems' = TRUE
            /\ mainTextureViews' =
                 Insert(Insert(mainTextureViews, LEFT_XR_TEXTURE_HANDLE,
                               ManualTextureView(image_index, "left")),
                        RIGHT_XR_TEXTURE_HANDLE,
                        ManualTextureView(image_index, "right"))
            /\ renderStatus' = "Enabled"
            /\ renderSystems' = TRUE
       ELSE UNCHANGED << mainSystems, mainTextureViews, renderStatus,
                         renderSystems >>
    /\ phase' = "running"
    /\ UNCHANGED << initResult, status, statusWrites, xrRenderData >>
    /\ UNCHANGED << xrVars, manual_texture_views, histVars, tick, renderFrame,
                    mainPc, renderPc, polled, log, warns, submitted >>

\* ------------------------------------------------------- the host's tick
\* App::update starts the main schedule; PreUpdate runs xr_begin_frame when
\* it was added and its run condition holds.
StartTick ==
    /\ phase = "running"
    /\ mainPc = "idle"
    /\ PipelinedRendering \/ renderPc = "idle"
    /\ tick < MaxTicks
    /\ tick' = tick + 1
    /\ mainPc' = IF mainSystems /\ xr_only(status) THEN "poll" ELSE "extract"
    /\ polled' = 0
    /\ log' = IF renderPc = "idle" THEN << >> ELSE log
    /\ warns' = IF renderPc = "idle" THEN {} ELSE warns
    /\ submitted' = IF renderPc = "idle" THEN NoSubmission ELSE submitted
    /\ startFrameState' = frame_state
    /\ startViews' = views
    /\ UNCHANGED << phase, initVars, xrVars, texVars, exitTick, renderFrame,
                    renderPc >>

\* ------------------------------------------- xr_begin_frame: poll events
\* One iteration of `while let Some(event) = instance.poll_event(..).unwrap()`.
\* res is what the runtime answers: "err", "none" (queue empty) or an event.
\* The READY and STOPPING arms: session.begin(VIEW_TYPE).unwrap() then
\* store(true), session.end().unwrap() then store(false).
SessionBeginEndStuck(res, ok) ==
    /\ log' = log \o << Entry(tick, "poll_event", res),
                        Entry(tick, IF res = "READY" THEN "begin_session"
                                                     ELSE "end_session",
                              IF ok THEN "ok" ELSE "err") >>
    /\ IF ok
       THEN /\ session_running' = TRUE
            /\ UNCHANGED phase
       ELSE /\ phase' = "crashed"
            /\ UNCHANGED session_running

SessionBeginEnd(res, ok) ==
    /\ log' = log \o << Entry(tick, "poll_event", res),
                        Entry(tick, IF res = "READY" THEN "begin_session"
                                                     ELSE "end_session",
                              IF ok THEN "ok" ELSE "err") >>
    /\ IF ok
       THEN /\ session_running' = (res = "READY")
            /\ UNCHANGED phase
       ELSE /\ phase' = "crashed"
            /\ UNCHANGED session_running

\* The `_ => {}` arms: the loop goes on with the next event.
IgnoredEventReturns(res) ==
    /\ log' = Append(log, Entry(tick, "poll_event", res))
    /\ polled' = polled + 1
    /\ mainPc' = "extract"
    /\ UNCHANGED << phase, session_running, warns, exitTick >>

IgnoredEvent(res) ==
    /\ log' = Append(log, Entry(tick, "poll_event", res))
    /\ polled' = polled + 1
    /\ UNCHANGED << phase, mainPc, session_running, warns, exitTick >>

PollStep(res, ok) ==
    CASE res = "err" ->
           /\ phase' = "crashed"
           /\ log' = Append(log, Entry(tick, "poll_event", "err"))
           /\ UNCHANGED << mainPc, session_running, warns, exitTick, polled >>
      [] res = "none" ->
           /\ mainPc' = "wait"
           /\ log' = Append(log, Entry(tick, "poll_event", "none"))
           /\ UNCHANGED << phase, session_running, warns, exitTick, polled >>
      [] res \in {"READY", "STOPPING"} ->
           /\ SessionBeginEnd(res, ok)
           /\ polled' = polled + 1
           /\ UNCHANGED << mainPc, warns, exitTick >>
      [] res \in {"EXITING", "LOSS_PENDING"} ->
           /\ mainPc' = "extract"
           /\ log' = Append(log, Entry(tick, "poll_event", res))
           /\ exitTick' = IF exitTick = 0 THEN tick ELSE exitTick
           /\ polled' = polled + 1
           /\ UNCHANGED << phase, session_running, warns >>
      [] res = "InstanceLossPending" ->
           /\ mainPc' = "extract"
           /\ log' = Append(log, Entry(tick, "poll_event", res))
           /\ polled' = polled + 1
           /\ UNCHANGED << phase, session_running, warns, exitTick >>
      [] res = "EventsLost" ->
           /\ warns' = warns \cup {"lost XR events"}
           /\ log' = Append(log, Entry(tick, "poll_event", res))
           /\ polled' = polled + 1
           /\ UNCHANGED << phase, mainPc, session_running, exitTick >>
      [] OTHER -> IgnoredEvent(res)

XrPollEvents ==
    /\ phase = "running"
    /\ mainPc = "poll"
    /\ \E res \in {"err", "none"} \cup (IF polled < MaxEvents THEN Events ELSE {}),
          ok \in BOOLEAN :
         /\ (res \notin {"READY", "STOPPING"} => ok)
         /\ PollStep(res, ok)
    /\ UNCHANGED << initVars, frame_state, views, image_index, texVars, tick,
                    renderFrame, renderPc, submitted, startFrameState,
                    startViews >>

\* --------------------------------------------- xr_begin_frame: wait frame
\* `*frame_state = match frame_waiter.wait() { Ok(a) => a, Err(e) => { warn; return } }`
\* The runtime's predicted display time is the number of the frame.
WaitStepDefault(ok) ==
    IF ok
    THEN /\ frame_state' = tick
         /\ mainPc' = "begin"
         /\ UNCHANGED warns
    ELSE /\ warns' = warns \cup {"wait error"}
         /\ mainPc' = "extract"
         /\ frame_state' = 0

WaitStep(ok) ==
    IF ok
    THEN /\ frame_state' = tick
         /\ mainPc' = "begin"
         /\ UNCHANGED warns
    ELSE /\ warns' = warns \cup {"wait error"}
         /\ mainPc' = "extract"
         /\ UNCHANGED frame_state

XrWaitFrame ==
    /\ phase = "running"
    /\ mainPc = "wait"
    /\ \E ok \in BOOLEAN :
         /\ WaitStep(ok)
         /\ log' = Append(log, Entry(tick, "wait_frame", IF ok THEN "ok" ELSE "err"))
    /\ UNCHANGED << phase, initVars, session_running, views, image_index,
                    texVars, histVars, tick, renderFrame, renderPc, polled,
                    submitted >>

\* -------------------------------------------- xr_begin_frame: begin frame
\* swapchain.begin().unwrap()
BeginStep(ok) ==
    IF ok
    THEN mainPc' = "locate" /\ UNCHANGED phase
    ELSE phase' = "crashed" /\ UNCHANGED mainPc

XrBeginFrame ==
    /\ phase = "running"
    /\ mainPc = "begin"
    /\ \E ok \in BOOLEAN :
         /\ BeginStep(ok)
         /\ log' = Append(log, Entry(tick, "begin_frame", IF ok THEN "ok" ELSE "err"))
    /\ UNCHANGED << initVars, xrVars, texVars, histVars, tick, renderFrame,
                    renderPc, polled, warns, submitted >>

\* ------------------------------------------- xr_begin_frame: locate views
\* *views = session.locate_views(VIEW_TYPE, predicted_display_time, stage).unwrap().1
LocateStep(ok) ==
    IF ok
    THEN /\ views' = frame_state
         /\ mainPc' = "extract"
         /\ UNCHANGED phase
    ELSE /\ phase' = "crashed"
         /\ UNCHANGED << views, mainPc >>

XrLocateViews ==
    /\ phase = "running"
    /\ mainPc = "locate"
    /\ \E ok \in BOOLEAN :
         /\ LocateStep(ok)
         /\ log' = Append(log, Entry(tick, "locate_views", IF ok THEN "ok" ELSE "err"))
    /\ UNCHANGED << initVars, session_running, frame_state, image_index,
                    texVars, histVars, tick, renderFrame, renderPc, polled,
                    warns, submitted >>

\* ------------------------------------------------------------- extraction
\* The main schedule is over; the render world is extracted and the Render
\* schedule starts.  post_frame runs when it was added and xr_only() holds in
\* the render world.  ManualTextureViews is extracted from the main world.
ExtractThenRender ==
    /\ phase = "running"
    /\ mainPc = "extract"
    /\ renderPc = "idle"
    /\ mainPc' = "idle"
    /\ renderFrame' = tick
    /\ log' = Append(log, Entry(tick, "extract", "ok"))
    /\ renderPc' = "render"
    /\ manual_texture_views' =
         IF DOMAIN manual_texture_views = {} THEN mainTextureViews
         ELSE manual_texture_views
    /\ UNCHANGED << phase, initVars, xrVars, mainTextureViews, histVars, tick,
                    polled, warns, submitted >>

Extract ==
    /\ phase = "running"
    /\ mainPc = "extract"
    /\ renderPc = "idle"
    /\ mainPc' = "idle"
    /\ renderFrame' = tick
    /\ log' = Append(log, Entry(tick, "extract", "ok"))
    /\ renderPc' = IF renderSystems /\ xr_only(renderStatus)
                   THEN "acquire" ELSE "render"
    /\ manual_texture_views' =
         IF DOMAIN manual_texture_views = {} THEN mainTextureViews
         ELSE manual_texture_views
    /\ UNCHANGED << phase, initVars, xrVars, mainTextureViews, histVars, tick,
                    polled, warns, submitted >>

\* ------------------------------------------------------------- post_frame
\* swapchain.acquire_image().unwrap()
AcquireStepNoWait(ok) ==
    IF ok
    THEN /\ image_index' = acquire_image(image_index)
         /\ renderPc' = "publish"
         /\ UNCHANGED phase
    ELSE /\ phase' = "crashed"
         /\ UNCHANGED << image_index, renderPc >>

AcquireStep(ok) ==
    IF ok
    THEN /\ image_index' = acquire_image(image_index)
         /\ renderPc' = "wait_image"
         /\ UNCHANGED phase
    ELSE /\ phase' = "crashed"
         /\ UNCHANGED << image_index, renderPc >>

PostFrameAcquire ==
    /\ phase = "running"
    /\ renderPc = "acquire"
    /\ \E ok \in BOOLEAN :
         /\ AcquireStep(ok)
         /\ log' = Append(log, Entry(renderFrame, "acquire_image",
                                     IF ok THEN "ok" ELSE "err"))
    /\ UNCHANGED << initVars, session_running, frame_state, views, texVars,
                    histVars, tick, renderFrame, mainPc, polled, warns,
                    submitted >>

\* swapchain.wait_image().unwrap()
WaitImageStep(ok) ==
    IF ok
    THEN renderPc' = "publish" /\ UNCHANGED phase
    ELSE phase' = "crashed" /\ UNCHANGED renderPc

PostFrameWaitImage ==
    /\ phase = "running"
    /\ renderPc = "wait_image"
    /\ \E ok \in BOOLEAN :
         /\ WaitImageStep(ok)
         /\ log' = Append(log, Entry(renderFrame, "wait_image",
                                     IF ok THEN "ok" ELSE "err"))
    /\ UNCHANGED << initVars, xrVars, texVars, histVars, tick, renderFrame,
                    mainPc, polled, warns, submitted >>

\* manual_texture_views.insert(LEFT.., left); .insert(RIGHT.., right)
PostFramePublishSwapped ==
    /\ phase = "running"
    /\ renderPc = "publish"
    /\ manual_texture_views' =
         Insert(Insert(manual_texture_views, LEFT_XR_TEXTURE_HANDLE,
                       ManualTextureView(image_index, "right")),
                RIGHT_XR_TEXTURE_HANDLE,
                ManualTextureView(image_index, "left"))
    /\ log' = Append(log, Entry(renderFrame, "publish_views", "ok"))
    /\ renderPc' = "render"
    /\ UNCHANGED << phase, initVars, xrVars, mainTextureViews, histVars, tick,
                    renderFrame, mainPc, polled, warns, submitted >>

PostFramePublish ==
    /\ phase = "running"
    /\ renderPc = "publish"
    /\ manual_texture_views' =
         Insert(Insert(manual_texture_views, LEFT_XR_TEXTURE_HANDLE,
                       ManualTextureView(image_index, "left")),
                RIGHT_XR_TEXTURE_HANDLE,
                ManualTextureView(image_index, "right"))
    /\ log' = Append(log, Entry(renderFrame, "publish_views", "ok"))
    /\ renderPc' = "render"
    /\ UNCHANGED << phase, initVars, xrVars, mainTextureViews, histVars, tick,
                    renderFrame, mainPc, polled, warns, submitted >>

\* ---------------------------------------------------------- render_system
\* The host's device submission; end_frame is ordered after it.
RenderSystemNoRelease ==
    /\ phase = "running"
    /\ renderPc = "render"
    /\ renderPc' = IF renderSystems /\ xr_only(renderStatus)
                   THEN "end" ELSE "idle"
    /\ log' = Append(log, Entry(renderFrame, "render_system", "ok"))
    /\ UNCHANGED << phase, initVars, xrVars, texVars, histVars, tick,
                    renderFrame, mainPc, polled, warns, submitted >>

RenderSystem ==
    /\ phase = "running"
    /\ renderPc = "render"
    /\ renderPc' = IF renderSystems /\ xr_only(renderStatus)
                   THEN "release" ELSE "idle"
    /\ log' = Append(log, Entry(renderFrame, "render_system", "ok"))
    /\ UNCHANGED << phase, initVars, xrVars, texVars, histVars, tick,
                    renderFrame, mainPc, polled, warns, submitted >>

\* -------------------------------------------------------------- end_frame
\* swapchain.release_image().unwrap()
ReleaseStep(ok) ==
    IF ok
    THEN renderPc' = "end" /\ UNCHANGED phase
    ELSE phase' = "crashed" /\ UNCHANGED renderPc

EndFrameRelease ==
    /\ phase = "running"
    /\ renderPc = "release"
    /\ \E ok \in BOOLEAN :
         /\ ReleaseStep(ok)
         /\ log' = Append(log, Entry(renderFrame, "release_image",
                                     IF ok THEN "ok" ELSE "err"))
    /\ UNCHANGED << initVars, xrVars, texVars, histVars, tick, renderFrame,
                    mainPc, polled, warns, submitted >>

\* swapchain.end(predicted_display_time, views, ..); Err(e) => warn!
EndFrameSubmit ==
    /\ phase = "running"
    /\ renderPc = "end"
    /\ \E ok \in BOOLEAN :
         /\ log' = Append(log, Entry(renderFrame, "end_frame",
                                     IF ok THEN "ok" ELSE "err"))
         /\ warns' = IF ok THEN warns ELSE warns \cup {"end error"}
    /\ submitted' = [t |-> frame_state, v |-> views]
    /\ renderPc' = "idle"
    /\ UNCHANGED << phase, initVars, xrVars, texVars, histVars, tick,
                    renderFrame, mainPc, polled >>

\* ------------------------------------------------------------------- Next
Next ==
    \/ Build
    \/ Finish
    \/ StartTick
    \/ XrPollEvents
    \/ XrWaitFrame
    \/ XrBeginFrame
    \/ XrLocateViews
    \/ Extract
    \/ PostFrameAcquire
    \/ PostFrameWaitImage
    \/ PostFramePublish
    \/ RenderSystem
    \/ EndFrameRelease
    \/ EndFrameSubmit

Spec == Init /\ [][Next]_vars

\* ------------------------------------------------------------- type check
TypeOK ==
    /\ phase \in {"prebuild", "built", "running", "crashed"}
    /\ status \in {"None", "Waiting", "Enabled", "Disabled"}
    /\ mainPc \in {"idle", "poll", "wait", "begin", "locate", "extract"}
    /\ renderPc \in {"idle", "acquire", "wait_image", "publish", "render",
                     "release", "end"}
    /\ tick \in 0..MaxTicks
    /\ polled \in 0..MaxEvents

\* =================================================================
\* Properties
\* =================================================================
FrameBracketCalls == {"wait_frame", "begin_frame", "locate_views",
                      "acquire_image", "wait_image", "publish_views",
                      "release_image", "end_frame"}
RuntimeCalls == (FrameBracketCalls \ {"publish_views"})
                   \cup {"poll_event", "begin_session", "end_session"}

Idx(c) == {i \in DOMAIN log : log[i].c = c}
Called(c) == Idx(c) # {}
CalledOk(c) == \E i \in Idx(c) : log[i].r = "ok"
Polled(e) == {i \in DOMAIN log : log[i].c = "poll_event" /\ log[i].r = e}
IsBracketCall(e) == e.c \in FrameBracketCalls
CallNames(s) == [i \in DOMAIN s |-> s[i].c]
StageA == {"poll", "wait", "begin", "locate"}
AbortEvents == {"EXITING", "LOSS_PENDING", "InstanceLossPending"}

\* C1: in every tick the poll loop calls begin-session exactly once for each
\* READY event it observes (right after observing it) and end-session exactly
\* once for each STOPPING event, and never otherwise; once the last such call
\* has returned, XrSessionRunning is true after READY and false after STOPPING.
SessionCalls == {i \in DOMAIN log : log[i].c \in {"begin_session", "end_session"}}
C1_SessionBeginEndPerEvent ==
    /\ Cardinality(Idx("begin_session")) = Cardinality(Polled("READY"))
    /\ Cardinality(Idx("end_session")) = Cardinality(Polled("STOPPING"))
    /\ \A i \in Polled("READY") :
          i < Len(log) /\ log[i + 1].c = "begin_session"
    /\ \A i \in Polled("STOPPING") :
          i < Len(log) /\ log[i + 1].c = "end_session"
    /\ \A i \in SessionCalls :
          (log[i].r = "ok" /\ \A j \in SessionCalls : j <= i)
             => (session_running <=> log[i].c = "begin_session")
C1_Witness ==
    /\ Cardinality(Polled("READY")) = 1
    /\ Cardinality(Polled("STOPPING")) = 1
    /\ CalledOk("begin_session") /\ CalledOk("end_session")
    /\ mainPc = "wait"

\* C2: in a frame in which xr_begin_frame, post_frame and end_frame all ran
\* to their end, the frame-bracket calls are exactly wait, begin_frame,
\* locate_views, acquire_image, wait_image, publish, release_image, end-frame
\* in this order, and all of them belong to one frame.
FrameCompleted ==
    /\ CalledOk("locate_views")
    /\ Called("publish_views")
    /\ Called("end_frame")
C2_BracketOrder ==
    FrameCompleted =>
       /\ CallNames(SelectSeq(log, IsBracketCall)) =
            << "wait_frame", "begin_frame", "locate_views", "acquire_image",
               "wait_image", "publish_views", "release_image", "end_frame" >>
       /\ \A i, j \in DOMAIN log : log[i].f = log[j].f
C2_Witness == FrameCompleted /\ renderPc = "idle" /\ tick = 2

\* C3: post_frame calls acquire_image only in a tick in which begin_frame
\* was called successfully before.
C3_AcquireNeedsBegin ==
    \A i \in Idx("acquire_image") :
       \E j \in Idx("begin_frame") :
          j < i /\ log[j].r = "ok" /\ log[j].f = log[i].f

\* C4: while xr_begin_frame of a frame runs, the render schedule is idle and
\* the frame it finished last is the previous one.
C4_OneFrameInFlight ==
    mainPc \in StageA => (renderPc = "idle" /\ renderFrame = tick - 1)
C4_Witness == mainPc = "wait" /\ tick = 2 /\ renderFrame = 1

\* C5: in a tick whose wait() failed no stage calls begin_frame,
\* acquire_image or locate_views.
WaitFailed == \E i \in Idx("wait_frame") : log[i].r = "err"
C5_NoCallsAfterFailedWait ==
    WaitFailed =>
       ~ (Called("begin_frame") \/ Called("acquire_image") \/ Called("locate_views"))

\* C6: once the poll loop has observed EXITING, LOSS_PENDING or
\* InstanceLossPending, no runtime call follows in the same tick.
C6_NoCallsAfterAbortEvent ==
    \A i \in DOMAIN log :
       (log[i].c = "poll_event" /\ log[i].r \in AbortEvents)
          => \A j \in DOMAIN log : j > i => log[j].c \notin RuntimeCalls

\* C7: in every tick after the one that observed EXITING or LOSS_PENDING no
\* frame-bracket step and no begin-session / end-session call is issued.
C7_ExitIsTerminal ==
    (exitTick # 0 /\ tick > exitTick) =>
       \A i \in DOMAIN log :
          log[i].f > exitTick =>
             log[i].c \notin (FrameBracketCalls \cup {"begin_session", "end_session"})

\* C8: when initialization failed the status is Disabled, none of the three
\* systems is added to a schedule, and no tick waits for a frame or touches
\* the swapchain.
C8_DisabledNeverRuns ==
    initResult = "err" =>
       /\ status = "Disabled"
       /\ ~ mainSystems /\ ~ renderSystems
       /\ mainPc \notin StageA
       /\ renderPc \notin {"acquire", "wait_image", "publish", "release", "end"}
       /\ \A i \in DOMAIN log : log[i].c \notin RuntimeCalls \cup FrameBracketCalls
C8_Witness ==
    initResult = "err" /\ tick = 2 /\ renderPc = "idle" /\ Called("render_system")

\* C9: build writes XrEnableStatus exactly once (Enabled when
\* initialization succeeded, Disabled when it failed), nothing writes it
\* afterwards, the render world's copy never disagrees, and ready() is true
\* exactly when the status is not Waiting.
C9_StatusWrittenOnce ==
    /\ statusWrites <= 1
    /\ phase = "prebuild" => statusWrites = 0 /\ status \in {"None", "Waiting"}
    /\ phase # "prebuild" =>
          /\ statusWrites = 1
          /\ initResult = "ok" => status = "Enabled"
          /\ initResult = "err" => status = "Disabled"
    /\ renderStatus \in {"None", status}
    /\ ready <=> status # "Waiting"
C9_Witness ==
    /\ tick = MaxTicks /\ renderPc = "idle" /\ mainPc = "idle"
    /\ status = "Enabled" /\ renderStatus = "Enabled" /\ Called("end_frame")

\* C10: in a tick whose wait() failed a warning is logged and XrFrameState
\* and XrViews keep the values they had when the tick started; the next tick
\* starts with the event poll, with both values still unchanged.
C10_State ==
    WaitFailed =>
       /\ "wait error" \in warns
       /\ frame_state = startFrameState
       /\ views = startViews
C10_Step ==
    (WaitFailed /\ tick' = tick + 1) =>
       /\ mainPc' = "poll"
       /\ frame_state' = frame_state
       /\ views' = views
C10_FailedWaitKeepsFrameState == [] C10_State /\ [][C10_Step]_vars
C10_Witness ==
    /\ WaitFailed /\ tick = 2 /\ frame_state = 1 /\ views = 1
    /\ renderPc = "idle" /\ mainPc = "idle" /\ Called("end_frame")

\* C11: after a successful initialization the main world's table holds both
\* fixed handles from finish on and the render world's table holds them from
\* the first extraction on; every entry carries the negotiated resolution and
\* format; once post_frame has published in a tick, the render world's left
\* and right entries are the left and right view of the image acquired in
\* that tick.
XrHandles == {LEFT_XR_TEXTURE_HANDLE, RIGHT_XR_TEXTURE_HANDLE}
Negotiated(m) ==
    \A h \in DOMAIN m : m[h].size = XrResolution /\ m[h].format = XrFormat
C11_TextureHandlesStable ==
    (initResult = "ok" /\ phase \in {"running", "crashed"}) =>
       /\ DOMAIN mainTextureViews = XrHandles
       /\ DOMAIN manual_texture_views \in {{}, XrHandles}
       /\ Called("extract") => DOMAIN manual_texture_views = XrHandles
       /\ Negotiated(mainTextureViews) /\ Negotiated(manual_texture_views)
       /\ Called("publish_views") =>
             /\ CalledOk("acquire_image")
             /\ manual_texture_views[LEFT_XR_TEXTURE_HANDLE].texture_view
                   = get_render_views(image_index, "left")
             /\ manual_texture_views[RIGHT_XR_TEXTURE_HANDLE].texture_view
                   = get_render_views(image_index, "right")
C11_Witness ==
    /\ tick = 3 /\ renderPc = "idle" /\ Called("publish_views")
    /\ manual_texture_views[LEFT_XR_TEXTURE_HANDLE].texture_view
          # mainTextureViews[LEFT_XR_TEXTURE_HANDLE].texture_view

\* C12: in every tick the acquire_image and release_image calls alternate,
\* starting with acquire_image; a release_image follows a successful
\* acquire_image of the same frame; and whenever the render schedule is idle
\* and the process is alive every acquired image has been released, so the
\* next tick starts with none outstanding.
IsImageCall(e) == e.c \in {"acquire_image", "release_image"}
ImageCalls == SelectSeq(log, IsImageCall)
C12_AtMostOneImageHeld ==
    /\ \A i \in DOMAIN ImageCalls :
          IF i % 2 = 1
          THEN ImageCalls[i].c = "acquire_image"
          ELSE /\ ImageCalls[i].c = "release_image"
               /\ ImageCalls[i - 1].r = "ok"
               /\ ImageCalls[i - 1].f = ImageCalls[i].f
    /\ (phase = "running" /\ renderPc = "idle") => Len(ImageCalls) % 2 = 0
C12_Witness ==
    /\ tick = 2 /\ renderPc = "idle" /\ phase = "running"
    /\ WaitFailed /\ Len(ImageCalls) = 2

\* C13: an end-frame submission is issued only in a tick in which
\* begin_frame was called successfully before it, so that begin_frame and
\* end-frame alternate over the ticks.
C13_EndNeedsBegin ==
    \A i \in Idx("end_frame") :
       \E j \in Idx("begin_frame") :
          j < i /\ log[j].r = "ok" /\ log[j].f = log[i].f

\* C14: a frame-bracket call (wait, begin_frame, acquire_image, wait_image,
\* release_image, end-frame) is issued only while XrSessionRunning is true.
IsRuntimeBracketCall(e) == e.c \in (FrameBracketCalls \ {"publish_views", "locate_views"})
BracketCallIssued ==
    /\ Len(log') > Len(log)
    /\ IsRuntimeBracketCall(log'[Len(log')])
C14_BracketOnlyWhileRunning == [][BracketCallIssued => session_running]_vars

\* C15: a failed begin-session or end-session call is logged and leaves the
\* process alive with XrSessionRunning at its prior value.
SessionCallFailed == \E i \in SessionCalls : log[i].r = "err"
C15_SessionFailureIsLogged ==
    SessionCallFailed => phase = "running"

\* C16: a failed acquire_image, wait_image, release_image, locate_views or
\* begin_frame is not a hard failure: the process stays alive.
SoftFailCalls == {"acquire_image", "wait_image", "release_image",
                  "locate_views", "begin_frame"}
C16_BracketFailureIsSoft ==
    (\E i \in DOMAIN log : log[i].c \in SoftFailCalls /\ log[i].r = "err")
       => phase = "running"

\* C17: after a failed event poll the process is alive, the frame is skipped
\* and the next tick polls again.
PollFailed == \E i \in Idx("poll_event") : log[i].r = "err"
C17_PollFailureSkipsFrame ==
    PollFailed =>
       /\ phase = "running"
       /\ ~ \E i \in DOMAIN log : IsBracketCall(log[i])

\* C18: the end-frame submission of a frame is given the display time that
\* frame's wait() returned and views located for that display time.
C18_SubmitsOwnFrameTiming ==
    Called("end_frame") =>
       /\ submitted.t = renderFrame
       /\ submitted.v = submitted.t

\* C19: in a frame of the XR path, acquire_image, wait_image and the publish
\* of the views come after the extraction and before render_system, all
\* three have happened when render_system runs, and release_image comes only
\* after render_system.
First(c) == CHOOSE i \in Idx(c) : \A j \in Idx(c) : i <= j
C19_SwapchainAroundRenderSystem ==
    /\ \A i \in DOMAIN log :
          log[i].c \in {"acquire_image", "wait_image", "publish_views"} =>
             /\ Called("extract") /\ First("extract") < i
             /\ Called("render_system") => i < First("render_system")
    /\ \A i \in Idx("release_image") :
          Called("render_system") /\ First("render_system") < i
    /\ (Called("render_system") /\ renderSystems) =>
          /\ CalledOk("acquire_image") /\ CalledOk("wait_image")
          /\ Called("publish_views")
C19_Witness ==
    /\ Called("release_image") /\ Called("publish_views")
    /\ tick = 2 /\ renderPc = "idle"

\* C20: polling an EventsLost event, an unknown event or a session state
\* without an arm of its own changes neither XrSessionRunning nor XrFrameState
\* nor XrViews, calls neither begin-session nor end-session, and leaves the
\* poll loop running.
NoEffectEvents == {"EventsLost", "Other", "FOCUSED"}
NoEffectPolled ==
    /\ Len(log') > Len(log)
    /\ log'[Len(log')].c = "poll_event"
    /\ log'[Len(log')].r \in NoEffectEvents
C20_Step ==
    NoEffectPolled =>
       /\ Len(log') = Len(log) + 1
       /\ session_running' = session_running
       /\ frame_state' = frame_state
       /\ views' = views
       /\ phase' = phase
       /\ mainPc' = "poll"
C20_IgnoredEventsChangeNothing == [][C20_Step]_vars
C20_Witness ==
    /\ Len(log) >= 3
    /\ log[1].c = "poll_event" /\ log[1].r = "Other"
    /\ log[2].c = "poll_event" /\ log[2].r = "EventsLost"
    /\ log[3].c = "poll_event" /\ log[3].r = "none"
    /\ mainPc = "wait"
====
